---- MODULE Spec2Model ----
(***************************************************************************)
(* The CryptoMax dashboard (src/src/pages/Dashboard.tsx) and the store     *)
(* schema it talks to (src/supabase/migrations/20250122233232_bitter_rain  *)
(* .sql): the profiles and transactions tables with their CHECK            *)
(* constraints and row-level-security policies, the dashboard's fetches    *)
(* and its handleTransaction, each browser session being one process.      *)
(* Amounts are whole numbers of the smallest unit.                         *)
(***************************************************************************)
EXTENDS Integers, Sequences, FiniteSets, TLC

\* ------------------------------------------------------------- bounds
\* Rows the sessions may add to the transactions table in one run.
MaxTx == 2
\* Rows already in the table in the long-history specification, and the rows
\* its sessions may add.
Prefill == 10
MaxLong == 2
\* .limit(10) of fetchTransactions.
LIMIT == 10

Users == {"u1", "u2"}
Sessions == {"s1", "s2", "s3"}
\* useAuth().user of each browser session: s1 and s2 are two sessions of u1.
userOf(s) == IF s = "s3" THEN "u2" ELSE "u1"

\* What the user may have typed into the amount field.
AmountInputs == {"", "abc", "0", "-1", "1"}
TxTypes == {"deposit", "withdrawal", "trade"}
Currencies == {"BTC", "USD"}
Statuses == {"pending", "completed", "failed"}
Slots == {"loadProfile", "loadTransactions", "refresh", "postProfile", "postTransactions"}

VARIABLES
    profiles,          \* table profiles: user id -> row
    transactions,      \* table transactions, in insertion order
    pc,                \* where each session's dashboard is
    profile,           \* React state profile: <<>> (null) or <<row>>
    transactionsState, \* React state transactions
    req,               \* type and Number(amount) of the call the session has in flight
    toast,             \* the last toast the session showed
    fetches,           \* the session's select requests in flight
    lastApi,           \* the last direct request to the store and how it ended
    credited           \* per account, the signed sum of the calls that showed "successful"

vars == <<profiles, transactions, pc, profile, transactionsState, req, toast,
          fetches, lastApi, credited>>

\* ------------------------------------------------------------- JavaScript
\* Number(amount) on the strings of AmountInputs.
Number(str) ==
    CASE str = ""    -> [nan |-> FALSE, val |-> 0]
      [] str = "abc" -> [nan |-> TRUE,  val |-> 0]
      [] str = "0"   -> [nan |-> FALSE, val |-> 0]
      [] str = "-1"  -> [nan |-> FALSE, val |-> -1]
      [] str = "1"   -> [nan |-> FALSE, val |-> 1]

isNaN(n) == n.nan

\* !amount || isNaN(Number(amount)) || Number(amount) <= 0
InvalidAmount(amount) ==
    \/ amount = ""
    \/ isNaN(Number(amount))
    \/ Number(amount).val <= 0

\* type === 'withdrawal' && Number(amount) > profile?.btc_balance
InsufficientBalance(type, amount, prof) ==
    /\ type = "withdrawal"
    /\ Number(amount).val > prof.btc_balance

\* Faulty variants of InsertPayload: the row sent in the wrong currency, or without its status.
InsertPayloadUsd(uid, type, amount) ==
    [user_id |-> uid, type |-> type, amount |-> amount,
     currency |-> "USD", status |-> "completed"]

InsertPayloadPending(uid, type, amount) ==
    [user_id |-> uid, type |-> type, amount |-> amount,
     currency |-> "BTC", status |-> "pending"]

\* The row handleTransaction sends to insert.
InsertPayload(uid, type, amount) ==
    [user_id |-> uid, type |-> type, amount |-> amount,
     currency |-> "BTC", status |-> "completed"]

\* ------------------------------------------------------------- the store
\* Faulty variant of ProfilesCheck: the table without its CHECK constraints.
ProfilesCheckDropped(p) == TRUE

\* CHECK (btc_balance >= 0), CHECK (usd_balance >= 0)
ProfilesCheck(p) == p.btc_balance >= 0 /\ p.usd_balance >= 0

\* The CHECK constraints of the transactions columns.
TransactionsCheck(row) ==
    /\ row.type \in TxTypes
    /\ row.currency \in Currencies
    /\ row.status \in Statuses

\* Row-level security of profiles: SELECT and UPDATE of one's own row.
ProfilesPolicy(cmd, uid, row) == cmd \in {"SELECT", "UPDATE"} /\ uid = row.id

\* Faulty variant of TransactionsPolicy: an UPDATE policy like the one profiles has.
TransactionsPolicyWithUpdate(cmd, uid, row) ==
    cmd \in {"SELECT", "INSERT", "UPDATE"} /\ uid = row.user_id

\* Row-level security of transactions: SELECT and INSERT of one's own rows.
TransactionsPolicy(cmd, uid, row) == cmd \in {"SELECT", "INSERT"} /\ uid = row.user_id

\* INSERT INTO profiles (id, username): the balances take DEFAULT 0.
NewProfile(uid) == [id |-> uid, btc_balance |-> 0, usd_balance |-> 0]

\* The balance change a transaction row stands for.
SignedDelta(row) ==
    IF row.status # "completed" THEN 0
    ELSE IF row.type = "deposit" THEN row.amount
    ELSE IF row.type = "withdrawal" THEN 0 - row.amount
    ELSE 0

\* The trigger on transactions the dashboard waits for: the row's delta applied
\* to the owner's balance, in the inserting statement's transaction.
applyDelta(p, row) ==
    IF row.currency = "BTC"
    THEN [p EXCEPT !.btc_balance = @ + SignedDelta(row)]
    ELSE [p EXCEPT !.usd_balance = @ + SignedDelta(row)]

LastCreatedAt ==
    IF transactions = <<>> THEN 0 ELSE transactions[Len(transactions)].created_at

\* DEFAULT now(): not before the previous row's, and possibly equal to it.
Now(dt) == LastCreatedAt + dt

\* INSERT INTO transactions by caller uid: the policy's WITH CHECK, the column
\* checks, the foreign key, then the trigger under the profiles CHECK. An error
\* anywhere leaves both tables as they were.
InsertTransaction(uid, fields, dt) ==
    LET row == [id |-> Len(transactions) + 1, user_id |-> fields.user_id,
                type |-> fields.type, amount |-> fields.amount,
                currency |-> fields.currency, status |-> fields.status,
                created_at |-> Now(dt)]
        ok  == /\ TransactionsPolicy("INSERT", uid, row)
               /\ TransactionsCheck(row)
               /\ row.user_id \in DOMAIN profiles
               /\ ProfilesCheck(applyDelta(profiles[row.user_id], row))
    IN  [ok |-> ok,
         profiles |-> IF ok THEN [profiles EXCEPT ![row.user_id] = applyDelta(@, row)]
                      ELSE profiles,
         transactions |-> IF ok THEN Append(transactions, row) ELSE transactions]

\* Faulty variant of Before: ascending order.
BeforeAscending(a, b, tieAsc) ==
    \/ a.created_at < b.created_at
    \/ /\ a.created_at = b.created_at
       /\ IF tieAsc THEN a.id < b.id ELSE a.id > b.id

\* .order('created_at', { ascending: false }); rows of equal created_at come in
\* either order.
Before(a, b, tieAsc) ==
    \/ a.created_at > b.created_at
    \/ /\ a.created_at = b.created_at
       /\ IF tieAsc THEN a.id < b.id ELSE a.id > b.id

RECURSIVE InsertSorted(_, _, _)
InsertSorted(r, seq, tieAsc) ==
    IF seq = <<>> THEN <<r>>
    ELSE IF Before(r, Head(seq), tieAsc) THEN <<r>> \o seq
    ELSE <<Head(seq)>> \o InsertSorted(r, Tail(seq), tieAsc)

RECURSIVE OrderBy(_, _)
OrderBy(seq, tieAsc) ==
    IF seq = <<>> THEN <<>>
    ELSE InsertSorted(seq[Len(seq)], OrderBy(SubSeq(seq, 1, Len(seq) - 1), tieAsc), tieAsc)

\* Faulty variant of Limit: one row short.
LimitShort(seq, n) == SubSeq(seq, 1, IF Len(seq) < n - 1 THEN Len(seq) ELSE n - 1)

\* .limit(n)
Limit(seq, n) == SubSeq(seq, 1, IF Len(seq) < n THEN Len(seq) ELSE n)

\* fetchTransactions' query as caller uid.
SelectTransactions(uid, tieAsc) ==
    Limit(OrderBy(SelectSeq(transactions,
                            LAMBDA r : TransactionsPolicy("SELECT", uid, r) /\ r.user_id = uid),
                  tieAsc),
          LIMIT)

\* fetchProfile's query as caller uid: .single() of the caller's row.
SelectProfile(uid) ==
    IF uid \in DOMAIN profiles /\ ProfilesPolicy("SELECT", uid, profiles[uid])
    THEN <<[btc_balance |-> profiles[uid].btc_balance,
            usd_balance |-> profiles[uid].usd_balance]>>
    ELSE <<>>

\* ------------------------------------------------------------- initial states
NoReq == [type |-> "none", amount |-> 0]
NoFetch == [phase |-> "none", data |-> <<>>]
Sent == [phase |-> "sent", data |-> <<>>]

InitSessions ==
    /\ pc = [s \in Sessions |-> "unmounted"]
    /\ profile = [s \in Sessions |-> <<>>]
    /\ transactionsState = [s \in Sessions |-> <<>>]
    /\ req = [s \in Sessions |-> NoReq]
    /\ toast = [s \in Sessions |-> "none"]
    /\ fetches = [s \in Sessions |-> [k \in Slots |-> NoFetch]]
    /\ lastApi = [op |-> "none", result |-> "none"]

\* Nobody has registered yet.
Init ==
    /\ profiles = <<>>
    /\ transactions = <<>>
    /\ credited = [u \in Users |-> 0]
    /\ InitSessions

\* Both users registered; u2 has made one deposit of 1 and then u1 Prefill
\* deposits of 1, each at a time of its own.
InitLong ==
    /\ profiles = [u \in Users |->
                     [id |-> u, btc_balance |-> IF u = "u1" THEN Prefill ELSE 1,
                      usd_balance |-> 0]]
    /\ transactions = [i \in 1..(Prefill + 1) |->
                         [id |-> i, user_id |-> IF i = 1 THEN "u2" ELSE "u1",
                          type |-> "deposit", amount |-> 1,
                          currency |-> "BTC", status |-> "completed", created_at |-> i]]
    /\ credited = [u \in Users |-> IF u = "u1" THEN Prefill ELSE 1]
    /\ InitSessions

\* ------------------------------------------------------------- actions
\* A new auth.users row: the trigger inserts the profile.
handle_new_user(u) ==
    /\ u \notin DOMAIN profiles
    /\ profiles' = [v \in DOMAIN profiles \cup {u} |->
                      IF v = u THEN NewProfile(u) ELSE profiles[v]]
    /\ UNCHANGED <<transactions, pc, profile, transactionsState, req, toast, fetches,
                   lastApi, credited>>

\* The dashboard mounts: useEffect sends fetchProfile and fetchTransactions.
Mount(s) ==
    /\ pc[s] = "unmounted"
    /\ userOf(s) \in DOMAIN profiles
    /\ pc' = [pc EXCEPT ![s] = "idle"]
    /\ fetches' = [fetches EXCEPT ![s]["loadProfile"] = Sent,
                                  ![s]["loadTransactions"] = Sent]
    /\ UNCHANGED <<profiles, transactions, profile, transactionsState, req, toast,
                   lastApi, credited>>

\* The refresh button: fetchTransactions. The page shows it once profile is set.
Refresh(s) ==
    /\ pc[s] # "unmounted"
    /\ profile[s] # <<>>
    /\ fetches[s]["refresh"].phase = "none"
    /\ fetches' = [fetches EXCEPT ![s]["refresh"] = Sent]
    /\ UNCHANGED <<profiles, transactions, pc, profile, transactionsState, req, toast,
                   lastApi, credited>>

\* The store answers one of the session's selects.
ServeFetch(s, k) ==
    /\ fetches[s][k].phase = "sent"
    /\ \E tieAsc \in BOOLEAN :
          fetches' = [fetches EXCEPT ![s][k] =
                        [phase |-> "read",
                         data |-> IF k \in {"loadProfile", "postProfile"}
                                  THEN SelectProfile(userOf(s))
                                  ELSE SelectTransactions(userOf(s), tieAsc)]]
    /\ UNCHANGED <<profiles, transactions, pc, profile, transactionsState, req, toast,
                   lastApi, credited>>

\* The answer arrives: setProfile(data) or setTransactions(data); the awaiting
\* handleTransaction goes on to fetchTransactions, then to finally.
DeliverFetch(s, k) ==
    /\ fetches[s][k].phase = "read"
    /\ IF k \in {"loadProfile", "postProfile"}
       THEN /\ profile' = [profile EXCEPT ![s] = fetches[s][k].data]
            /\ UNCHANGED transactionsState
       ELSE /\ transactionsState' = [transactionsState EXCEPT ![s] = fetches[s][k].data]
            /\ UNCHANGED profile
    /\ fetches' = [fetches EXCEPT ![s] =
                     [j \in Slots |->
                        IF j = k THEN NoFetch
                        ELSE IF k = "postProfile" /\ j = "postTransactions" THEN Sent
                        ELSE fetches[s][j]]]
    /\ pc' = [pc EXCEPT ![s] =
                 IF k = "postProfile" THEN "fetchTransactions"
                 ELSE IF k = "postTransactions" THEN "idle"
                 ELSE @]
    /\ UNCHANGED <<profiles, transactions, req, toast, lastApi, credited>>

\* A click on Deposit or Withdraw with `amount` typed: the two client-side
\* checks, then setLoading(true) and the insert is sent.
handleTransaction(s, type, amount, cap) ==
    /\ pc[s] = "idle"
    /\ profile[s] # <<>>
    /\ IF InvalidAmount(amount)
       THEN /\ toast' = [toast EXCEPT ![s] = "Please enter a valid amount"]
            /\ UNCHANGED <<pc, req>>
       ELSE IF InsufficientBalance(type, amount, profile[s][1])
       THEN /\ toast' = [toast EXCEPT ![s] = "Insufficient balance"]
            /\ UNCHANGED <<pc, req>>
       ELSE /\ Len(transactions) < cap
            /\ pc' = [pc EXCEPT ![s] = "insert"]
            /\ req' = [req EXCEPT ![s] = [type |-> type, amount |-> Number(amount).val]]
            /\ UNCHANGED toast
    /\ UNCHANGED <<profiles, transactions, profile, transactionsState, fetches,
                   lastApi, credited>>

\* The insert runs at the store and its answer comes back: on an error the catch
\* branch and finally; otherwise the pause, the success toast and fetchProfile.
awaitInsert(s, cap, Dts) ==
    /\ pc[s] = "insert"
    /\ \E dt \in Dts :
          LET r == InsertTransaction(userOf(s),
                                     InsertPayload(userOf(s), req[s].type, req[s].amount),
                                     dt)
          IN  /\ r.ok => Len(transactions) < cap
              /\ profiles' = r.profiles
              /\ transactions' = r.transactions
              /\ IF r.ok
                 THEN /\ toast' = [toast EXCEPT ![s] = "successful"]
                      /\ pc' = [pc EXCEPT ![s] = "fetchProfile"]
                      /\ fetches' = [fetches EXCEPT ![s]["postProfile"] = Sent]
                      /\ credited' = [credited EXCEPT ![userOf(s)] =
                                        @ + (IF req[s].type = "deposit"
                                             THEN req[s].amount ELSE 0 - req[s].amount)]
                 ELSE /\ toast' = [toast EXCEPT ![s] = "Failed to process"]
                      /\ pc' = [pc EXCEPT ![s] = "idle"]
                      /\ UNCHANGED <<fetches, credited>>
    /\ req' = [req EXCEPT ![s] = NoReq]
    /\ UNCHANGED <<profile, transactionsState, lastApi>>

\* ------------------------------------------------------------- direct requests
\* Any signed-in user can send the store requests of their own with the client
\* library; the policies and constraints decide what happens.

\* UPDATE profiles SET col = v WHERE id = target, as caller uid.
ApiUpdateProfile(uid, target, col, v) ==
    /\ uid \in DOMAIN profiles
    /\ target \in DOMAIN profiles
    /\ LET new == IF col = "btc_balance"
                  THEN [profiles[target] EXCEPT !.btc_balance = v]
                  ELSE [profiles[target] EXCEPT !.usd_balance = v]
           result == IF ~ProfilesPolicy("UPDATE", uid, profiles[target]) THEN "denied"
                     ELSE IF ~ProfilesCheck(new) THEN "check violation"
                     ELSE "ok"
       IN  /\ profiles' = IF result = "ok" THEN [profiles EXCEPT ![target] = new]
                          ELSE profiles
           /\ lastApi' = [op |-> "update profiles", result |-> result]
    /\ UNCHANGED <<transactions, pc, profile, transactionsState, req, toast, fetches,
                   credited>>

\* INSERT INTO transactions of a row of the caller's choosing.
ApiInsertTransaction(uid, fields, dt, cap) ==
    /\ uid \in DOMAIN profiles
    /\ LET r == InsertTransaction(uid, fields, dt)
       IN  /\ r.ok => Len(transactions) < cap
           /\ profiles' = r.profiles
           /\ transactions' = r.transactions
           /\ lastApi' = [op |-> "insert transactions",
                          result |-> IF r.ok THEN "ok" ELSE "denied"]
    /\ UNCHANGED <<pc, profile, transactionsState, req, toast, fetches, credited>>

\* UPDATE transactions SET status = st WHERE id = i, as caller uid.
ApiUpdateTransaction(uid, i, st) ==
    /\ uid \in DOMAIN profiles
    /\ i \in 1..Len(transactions)
    /\ LET ok == TransactionsPolicy("UPDATE", uid, transactions[i])
       IN  /\ transactions' = IF ok THEN [transactions EXCEPT ![i].status = st]
                              ELSE transactions
           /\ lastApi' = [op |-> "update transactions",
                          result |-> IF ok THEN "ok" ELSE "denied"]
    /\ UNCHANGED <<profiles, pc, profile, transactionsState, req, toast, fetches,
                   credited>>

ApiNext(cap) ==
    \E uid \in Users :
        \/ \E v \in {-1, 1} : ApiUpdateProfile(uid, "u1", "btc_balance", v)
        \/ \E status \in {"pending", "completed"} :
               ApiInsertTransaction(uid,
                                    [user_id |-> "u1", type |-> "deposit", amount |-> -1,
                                     currency |-> "BTC", status |-> status],
                                    1, cap)
        \/ \E i \in 1..MaxTx : ApiUpdateTransaction(uid, i, "failed")

\* What one dashboard session can do next.
SessionStep(s, cap, Amounts, Dts) ==
    \/ Mount(s)
    \/ \E k \in Slots : ServeFetch(s, k)
    \/ \E k \in Slots : DeliverFetch(s, k)
    \/ \E type \in {"deposit", "withdrawal"}, amount \in Amounts :
           handleTransaction(s, type, amount, cap)
    \/ awaitInsert(s, cap, Dts)

Register == \E u \in Users : handle_new_user(u)

\* Two dashboard sessions of the same account, depositing and withdrawing 1.
Next ==
    \/ Register
    \/ \E s \in {"s1", "s2"} : SessionStep(s, MaxTx, {"1"}, {1})

Spec == Init /\ [][Next]_vars

\* One session of an account with a history of LIMIT rows, the refresh button
\* in use, and inserts that may share a timestamp with the row before.
NextLong ==
    \/ SessionStep("s1", Prefill + 1 + MaxLong, {"1"}, {0, 1})
    \/ Refresh("s1")

SpecLong == InitLong /\ [][NextLong]_vars

\* One dashboard session of u1, any typed amount, and direct requests about
\* u1's rows by u1 and by u2.
NextApi ==
    \/ Register
    \/ SessionStep("s1", MaxTx, AmountInputs, {1})
    \/ ApiNext(MaxTx)

SpecApi == Init /\ [][NextApi]_vars

\* ------------------------------------------------------------- properties
RowsOf(u) == {i \in 1..Len(transactions) : transactions[i].user_id = u}

SignedAmount(r) == IF r.type = "deposit" THEN r.amount ELSE 0 - r.amount

\* C1: whatever the sessions of an account deposit and withdraw, and whatever
\* else is asked of the store, in whatever order the steps run, both stored
\* balances of every account stay >= 0.
C1_BalancesNonNegative ==
    \A u \in DOMAIN profiles :
        profiles[u].btc_balance >= 0 /\ profiles[u].usd_balance >= 0

\* A withdrawal that passed the client's check against an outdated balance was
\* stopped by the store, the account having been brought to 0 meanwhile.
C1_Witness ==
    /\ \E s \in Sessions : toast[s] = "Failed to process"
    /\ \E i \in RowsOf("u1") :
          transactions[i].type = "deposit" /\ transactions[i].amount = 1
    /\ profiles["u1"].btc_balance = 0

C4_Claim ==
    [][\A s \in Sessions :
         (/\ pc[s] = "insert" /\ pc'[s] # "insert"
          /\ req[s].type = "withdrawal"
          /\ req[s].amount > profiles[userOf(s)].btc_balance) =>
             /\ toast'[s] = "Insufficient balance"
             /\ profiles' = profiles
             /\ transactions' = transactions
      ]_vars

\* C5: since handleTransaction rejects every empty, non-numeric, zero or
\* negative amount before it calls the store, every row of transactions has a
\* positive amount.
C5_Claim == \A i \in 1..Len(transactions) : transactions[i].amount > 0

\* C6 as stated: the recent-transactions read returns at most LIMIT rows, all of
\* the asking account, each created strictly later than the next.
C6_Claim ==
    \A u \in Users, tieAsc \in BOOLEAN :
        LET l == SelectTransactions(u, tieAsc)
        IN  /\ Len(l) <= LIMIT
            /\ \A i \in 1..Len(l) : l[i].user_id = u
            /\ \A i \in 1..(Len(l) - 1) : l[i].created_at > l[i + 1].created_at

\* C6, amended: the recent-transactions read returns at most LIMIT rows, all of
\* the asking account, none created earlier than the next (rows may share a
\* created_at).
C6_Amended ==
    \A u \in Users, tieAsc \in BOOLEAN :
        LET l == SelectTransactions(u, tieAsc)
        IN  /\ Len(l) <= LIMIT
            /\ \A i \in 1..Len(l) : l[i].user_id = u
            /\ \A i \in 1..(Len(l) - 1) : l[i].created_at >= l[i + 1].created_at

\* A session of u1 was served LIMIT rows while u1 has more, two of them with
\* the same created_at.
C6_Witness ==
    /\ Cardinality(RowsOf("u1")) > LIMIT
    /\ \E i, j \in RowsOf("u1") :
          i # j /\ transactions[i].created_at = transactions[j].created_at
    /\ \E k \in Slots :
          /\ fetches["s1"][k].phase = "read"
          /\ Len(fetches["s1"][k].data) = LIMIT
          /\ fetches["s1"][k].data[1].id = Len(transactions)

Matches(r, l) ==
    \E j \in 1..Len(l) :
        /\ l[j].id = r.id /\ l[j].user_id = r.user_id
        /\ l[j].amount = r.amount /\ l[j].currency = r.currency
        /\ l[j].type = r.type /\ l[j].status = "completed"

C8_StatusTerminal ==
    [][/\ \A s \in Sessions :
            (pc[s] = "insert" /\ pc'[s] # "insert") =>
                \/ transactions' = transactions
                \/ /\ Len(transactions') = Len(transactions) + 1
                   /\ transactions'[Len(transactions')].status \in {"completed", "failed"}
       /\ \A i \in 1..Len(transactions) :
            transactions[i].status \in {"completed", "failed"} =>
                /\ i <= Len(transactions')
                /\ transactions'[i].status = transactions[i].status
      ]_vars

\* The owner of a completed row written by the dashboard asked the store to set
\* its status to failed, and the row is still completed.
C8_Witness ==
    /\ lastApi = [op |-> "update transactions", result |-> "denied"]
    /\ toast["s1"] = "successful"
    /\ \E i \in RowsOf("u1") :
          transactions[i].currency = "BTC" /\ transactions[i].status = "completed"

\* C9: once a session's call has returned success and all its requests have
\* been answered, it shows the stored balance and a list with the row its call
\* wrote (the session is the only writer of its account here, so that row is
\* the account's newest).
C9_Claim ==
    \A s \in Sessions :
        (/\ pc[s] = "idle" /\ toast[s] = "successful"
         /\ \A k \in Slots : fetches[s][k].phase = "none") =>
            /\ profile[s] # <<>>
            /\ profile[s][1].btc_balance = profiles[userOf(s)].btc_balance
            /\ \E j \in 1..Len(transactionsState[s]) :
                  \A i \in RowsOf(userOf(s)) : transactionsState[s][j].id >= i

\* C10: the only step that changes a stored balance is a dashboard call of the
\* account's own session being accepted.
C10_Claim ==
    [][\A u \in DOMAIN profiles :
         (\/ profiles'[u].btc_balance # profiles[u].btc_balance
          \/ profiles'[u].usd_balance # profiles[u].usd_balance) =>
             \E s \in Sessions :
                 userOf(s) = u /\ pc[s] = "insert" /\ pc'[s] = "fetchProfile"
      ]_vars

====
